---- MODULE Spec2Model ----
(***************************************************************************)
(* Model of src/app.py: the cycle-time / work-item-age computation of the  *)
(* Streamlit page.  One script run takes an uploaded table, the sidebar    *)
(* settings and the clock, and either shows the results of compute_metrics *)
(* or reports the exception it raised.                                     *)
(*                                                                         *)
(* Text is modelled as sequences of one-character strings, so that         *)
(* str.lower, str.upper, str.strip, str.split and the code-point order     *)
(* used by sorted() and sort_values() are computed, not assumed.           *)
(* Time is counted in half-day ticks: a timestamp is 2 * day + half.       *)
(*                                                                         *)
(* A function or sequence written [x \in S |-> e] is followed by @@ <<>> or *)
(* \o <<>>, which leave its value as it is and have TLC tabulate it once.   *)
(***************************************************************************)
EXTENDS Integers, Sequences, FiniteSets, TLC

VARIABLES
    columns,              \* uploaded table: its header row (raw.columns)
    rows,                 \* uploaded table: its data rows, cells aligned with columns
    now,                  \* the clock read by datetime.now, in ticks (UTC)
    tz_name,              \* sidebar timezone, as its offset from UTC in ticks
    in_progress_aliases,  \* sidebar text input
    done_aliases,         \* sidebar text input
    pc,                   \* "uploaded" -> "done" | "error"
    results,              \* the result table shown after a successful run
    statuses,             \* the status list shown after a successful run
    error                 \* the missing columns named by the ValueError

vars == <<columns, rows, now, tz_name, in_progress_aliases, done_aliases,
          pc, results, statuses, error>>

(***************************************************************************)
(* Characters and strings                                                  *)
(***************************************************************************)

\* The characters used, in code-point order.
Ascii ==
    <<" ", ",", "0", "1", "2", "3", "4", "5", "6", "7", "8", "9",
      "A", "B", "C", "D", "E", "F", "G", "H", "I", "J", "K", "L", "M",
      "N", "O", "P", "Q", "R", "S", "T", "U", "V", "W", "X", "Y", "Z",
      "[", "]",
      "a", "b", "c", "d", "e", "f", "g", "h", "i", "j", "k", "l", "m",
      "n", "o", "p", "q", "r", "s", "t", "u", "v", "w", "x", "y", "z">>

\* The code point of each character (ord), tabulated once.
CodeTable ==
    [c \in {Ascii[i] : i \in 1..Len(Ascii)} |->
        CHOOSE i \in 1..Len(Ascii) : Ascii[i] = c] @@ <<>>

Code(c) == CodeTable[c]

IsUpperChar(c) == Code(c) >= Code("A") /\ Code(c) <= Code("Z")
IsLowerChar(c) == Code(c) >= Code("a") /\ Code(c) <= Code("z")

\* The lower-case and upper-case form of each character, tabulated once.
LowerTable ==
    [c \in DOMAIN CodeTable |->
        IF IsUpperChar(c) THEN Ascii[Code(c) + (Code("a") - Code("A"))] ELSE c] @@ <<>>
UpperTable ==
    [c \in DOMAIN CodeTable |->
        IF IsLowerChar(c) THEN Ascii[Code(c) - (Code("a") - Code("A"))] ELSE c] @@ <<>>

LowerChar(c) == LowerTable[c]
UpperChar(c) == UpperTable[c]

\* str.lower() and str.upper()
Lower(s) == [i \in 1..Len(s) |-> LowerChar(s[i])] \o <<>>
Upper(s) == [i \in 1..Len(s) |-> UpperChar(s[i])] \o <<>>

Range(s) == {s[i] : i \in 1..Len(s)}

SetMin(S) == CHOOSE m \in S : \A n \in S : m <= n
SetMax(S) == CHOOSE m \in S : \A n \in S : n <= m

\* str.strip(): leading and trailing whitespace removed
Strip(s) ==
    LET solid == {i \in 1..Len(s) : s[i] # " "}
    IN  IF solid = {} THEN <<>> ELSE SubSeq(s, SetMin(solid), SetMax(solid))

\* str.split(","): the pieces between the commas, empty pieces included
Split(s) ==
    LET commas == {i \in 1..Len(s) : s[i] = ","}
        cuts   == {0} \cup commas \cup {Len(s) + 1}
        starts == cuts \ {Len(s) + 1}
        NextCut(a) == SetMin({b \in cuts : b > a})
        Nth[k \in 1..Cardinality(starts)] ==
            IF k = 1 THEN 0 ELSE NextCut(Nth[k - 1])
    IN  [k \in 1..Cardinality(starts) |-> SubSeq(s, Nth[k] + 1, NextCut(Nth[k]) - 1)]

\* Python's order on str: by code point, a proper prefix first
StrLess(a, b) ==
    LET n    == IF Len(a) < Len(b) THEN Len(a) ELSE Len(b)
        diff == {i \in 1..n : a[i] # b[i]}
    IN  IF diff = {} THEN Len(a) < Len(b)
        ELSE Code(a[SetMin(diff)]) < Code(b[SetMin(diff)])


(***************************************************************************)
(* Cells of the uploaded table                                             *)
(***************************************************************************)

Null == [tag |-> "null"]                              \* None / NaN
Str(s) == [tag |-> "str", txt |-> s]                  \* a text cell
Dt(d, h) == [tag |-> "dt", day |-> d, half |-> h]     \* a date/time cell

NaT == [has |-> FALSE, t |-> 0]
Timestamp(n) == [has |-> TRUE, t |-> n]

None == [has |-> FALSE, v |-> 0]                      \* no Days
NoType == [has |-> FALSE, v |-> <<>>]                 \* no Metric Type
Some(x) == [has |-> TRUE, v |-> x]

\* Timestamp.date(): the calendar day of a tick
DateOf(t) == t \div 2

(***************************************************************************)
(* compute_metrics                                                         *)
(***************************************************************************)

\* required = ["key", "date of change", "status", "status [new]"]
NameKey    == <<"k", "e", "y">>
NameDate   == <<"d", "a", "t", "e", " ", "o", "f", " ", "c", "h", "a", "n", "g", "e">>
NameStatus == <<"s", "t", "a", "t", "u", "s">>
NameNew    == <<"s", "t", "a", "t", "u", "s", " ", "[", "n", "e", "w", "]">>
required   == <<NameKey, NameDate, NameStatus, NameNew>>

\* As ColsOf, had the headers been matched as they are written.
ColsOfExact(cs) ==
    [n \in Range(cs) |-> SetMax({i \in 1..Len(cs) : cs[i] = n})] @@ <<>>

\* cols = {c.lower(): c for c in df_raw.columns}: a later column replaces an
\* earlier one of the same lower-cased name.  The column is kept as its index.
ColsOf(cs) ==
    LET lower == [i \in 1..Len(cs) |-> Lower(cs[i])] \o <<>>
    IN  [n \in Range(lower) |-> SetMax({i \in 1..Len(cs) : lower[i] = n})] @@ <<>>

\* missing = [c for c in required if c not in cols]
Missing(cs) ==
    LET cols == ColsOf(cs)
    IN  SelectSeq(required, LAMBDA c : c \notin DOMAIN cols)

\* normalize_status
normalize_status(s) == IF s.tag = "str" THEN Str(Upper(Strip(s.txt))) ELSE s

\* coerce_datetime: a date/time cell becomes a Timestamp, anything else NaT
coerce_datetime(s) ==
    IF s.tag = "dt" THEN Timestamp(2 * s.day + s.half) ELSE NaT

\* The renamed frame with its Status columns normalised and its dates parsed.
Renamed(cs, rs) ==
    LET cols == ColsOf(cs)
    IN  [i \in 1..Len(rs) |->
            [Key       |-> rs[i][cols[NameKey]],
             Date      |-> coerce_datetime(rs[i][cols[NameDate]]),
             Status    |-> normalize_status(rs[i][cols[NameStatus]]),
             StatusNew |-> normalize_status(rs[i][cols[NameNew]])]] \o <<>>

\* As DropNa, had the subset been ["Key"] alone.
DropNaKeyOnly(df) == SelectSeq(df, LAMBDA r : r.Key.tag # "null")

\* df.dropna(subset=["Key", "Date of change"])
Retained(r) == r.Key.tag # "null" /\ r.Date.has
DropNa(df) == SelectSeq(df, Retained)

\* Series.isin(alias set)
IsIn(cell, S) == cell.tag = "str" /\ cell.txt \in S

\* A set of strings as the sequence in ascending order.
RECURSIVE SortedSeq(_)
SortedSeq(S) ==
    IF S = {} THEN <<>>
    ELSE LET m == CHOOSE x \in S : \A y \in S \ {x} : StrLess(x, y)
         IN  <<m>> \o SortedSeq(S \ {m})

\* df[df["Status [new]"].isin(S)].groupby("Key")["Date of change"].min():
\* the earliest Timestamp of each key that has a row with Status [new] in S.
\* As FirstDates, had the group's .max() been taken.
LastDates(df, S) ==
    LET hit  == {i \in 1..Len(df) : IsIn(df[i].StatusNew, S)}
        keys == {df[i].Key.txt : i \in hit}
    IN  [k \in keys |->
            SetMax({df[i].Date.t : i \in {j \in hit : df[j].Key.txt = k}})] @@ <<>>

FirstDates(df, S) ==
    LET hit  == {i \in 1..Len(df) : IsIn(df[i].StatusNew, S)}
        keys == {df[i].Key.txt : i \in hit}
    IN  [k \in keys |->
            SetMin({df[i].Date.t : i \in {j \in hit : df[j].Key.txt = k}})] @@ <<>>

\* pd.merge(in_prog, done, on="Key", how="outer"): one row per key of either
\* table, in the order of the keys.
\* As Merge, had the merge been how="left".
MergeLeft(in_prog, done) ==
    LET keys == SortedSeq(DOMAIN in_prog)
    IN  [i \in 1..Len(keys) |->
            [Key            |-> keys[i],
             InProgressDate |-> Timestamp(in_prog[keys[i]]),
             DoneDate       |-> IF keys[i] \in DOMAIN done
                                THEN Timestamp(done[keys[i]]) ELSE NaT]] \o <<>>

Merge(in_prog, done) ==
    LET keys == SortedSeq(DOMAIN in_prog \cup DOMAIN done)
    IN  [i \in 1..Len(keys) |->
            [Key            |-> keys[i],
             InProgressDate |-> IF keys[i] \in DOMAIN in_prog
                                THEN Timestamp(in_prog[keys[i]]) ELSE NaT,
             DoneDate       |-> IF keys[i] \in DOMAIN done
                                THEN Timestamp(done[keys[i]]) ELSE NaT]] \o <<>>

\* today_local = datetime.now(tz=local_tz).date()
\* As TodayLocal, had the clock been read without the timezone.
TodayUtc(clock, tz) == DateOf(clock)

TodayLocal(clock, tz) == DateOf(clock + tz)

\* row_days
\* As row_days, without the + 1 of the cycle time.
row_days_exclusive(r, today_local) ==
    IF r.InProgressDate.has
    THEN IF r.DoneDate.has
         THEN Some(DateOf(r.DoneDate.t) - DateOf(r.InProgressDate.t))
         ELSE Some((today_local - DateOf(r.InProgressDate.t)) + 1)
    ELSE None

\* As row_days, had the Done Date been tested first.
row_days_done_first(r, today_local) ==
    IF r.DoneDate.has
    THEN IF r.InProgressDate.has
         THEN Some((DateOf(r.DoneDate.t) - DateOf(r.InProgressDate.t)) + 1)
         ELSE Some((today_local - DateOf(r.DoneDate.t)) + 1)
    ELSE None

row_days(r, today_local) ==
    IF r.InProgressDate.has
    THEN IF r.DoneDate.has
         THEN Some((DateOf(r.DoneDate.t) - DateOf(r.InProgressDate.t)) + 1)
         ELSE Some((today_local - DateOf(r.InProgressDate.t)) + 1)
    ELSE None

CycleTime   == <<"C", "y", "c", "l", "e", " ", "T", "i", "m", "e">>
WorkItemAge == <<"W", "o", "r", "k", " ", "I", "t", "e", "m", " ", "A", "g", "e">>

\* As row_type, had the In Progress Date been tested first.
row_type_started_first(r) ==
    IF r.InProgressDate.has THEN Some(WorkItemAge)
    ELSE IF r.DoneDate.has THEN Some(CycleTime) ELSE NoType

\* row_type
row_type(r) ==
    IF r.DoneDate.has THEN Some(CycleTime)
    ELSE IF r.InProgressDate.has THEN Some(WorkItemAge) ELSE NoType

\* results["Days"] = ...; results["Metric Type"] = ...
WithMetrics(merged, today_local) ==
    [i \in 1..Len(merged) |->
        [Key            |-> merged[i].Key,
         InProgressDate |-> merged[i].InProgressDate,
         DoneDate       |-> merged[i].DoneDate,
         Days           |-> row_days(merged[i], today_local),
         MetricType     |-> row_type(merged[i])]] \o <<>>

\* The order of sort_values(by=["Metric Type", "Key"], ascending=[True, True]):
\* by Metric Type, a missing one last, then by Key.
RowBefore(a, b) ==
    IF a.MetricType.has /\ b.MetricType.has
    THEN \/ StrLess(a.MetricType.v, b.MetricType.v)
         \/ a.MetricType.v = b.MetricType.v /\ StrLess(a.Key, b.Key)
    ELSE IF a.MetricType.has # b.MetricType.has
    THEN a.MetricType.has
    ELSE StrLess(a.Key, b.Key)

\* results.sort_values(...): a stable sort, the first least row taken each time
\* As SortValues, had the sorted frame not been kept.
SortValuesDropped(rs) == rs

RECURSIVE SortValues(_)
SortValues(rs) ==
    IF rs = <<>> THEN <<>>
    ELSE LET i == CHOOSE j \in 1..Len(rs) :
                      /\ \A k \in 1..Len(rs) : ~RowBefore(rs[k], rs[j])
                      /\ \A k \in 1..(j - 1) : RowBefore(rs[j], rs[k])
         IN  <<rs[i]>> \o SortValues(SubSeq(rs, 1, i - 1) \o SubSeq(rs, i + 1, Len(rs)))

\* pd.unique: the distinct values in the order of their first appearance
Unique(xs) == SelectSeq([i \in 1..Len(xs) |-> <<i, xs[i]>>],
                        LAMBDA p : \A j \in 1..(p[1] - 1) : xs[j] # p[2])

\* unique_statuses: both Status columns without their nulls, one after the
\* other, made unique, the strings among them kept and sorted.
\* As UniqueStatuses, had only the Status column been read.
UniqueStatusesOld(df) ==
    LET status == SelectSeq([i \in 1..Len(df) |-> df[i].Status],
                            LAMBDA c : c.tag # "null")
        uniq   == Unique(status)
        strs   == SelectSeq(uniq, LAMBDA p : p[2].tag = "str")
    IN  SortedSeq({strs[i][2].txt : i \in 1..Len(strs)})

UniqueStatuses(df) ==
    LET status == SelectSeq([i \in 1..Len(df) |-> df[i].Status],
                            LAMBDA c : c.tag # "null")
        new    == SelectSeq([i \in 1..Len(df) |-> df[i].StatusNew],
                            LAMBDA c : c.tag # "null")
        uniq   == Unique(status \o new)
        strs   == SelectSeq(uniq, LAMBDA p : p[2].tag = "str")
    IN  SortedSeq({strs[i][2].txt : i \in 1..Len(strs)})

\* compute_metrics, past the check of the columns: (results, unique_statuses)
compute_metrics(cs, rs, today_local, in_prog_set, done_set) ==
    LET df      == DropNa(Renamed(cs, rs))
        in_prog == FirstDates(df, in_prog_set)
        done    == FirstDates(df, done_set)
        merged  == Merge(in_prog, done)
    IN  [results  |-> SortValues(WithMetrics(merged, today_local)),
         statuses |-> UniqueStatuses(df)]

(***************************************************************************)
(* Inputs                                                                  *)
(***************************************************************************)

MaxRows == 2

\* Headers an export may carry for each column.
HKey     == <<"K", "e", "y">>
HDate    == <<"D", "a", "t", "e", " ", "o", "f", " ", "c", "h", "a", "n", "g", "e">>
HStatus  == <<"S", "t", "a", "t", "u", "s">>
HNew     == <<"S", "t", "a", "t", "u", "s", " ", "[", "n", "e", "w", "]">>
KeyHeaders    == {HKey, <<"K", "E", "Y">>, <<"k", "e", "y">>, <<"K", "e", "y", "s">>}
DateHeaders   == {HDate, <<"D", "A", "T", "E", " ", "O", "F", " ", "C", "H", "A", "N", "G", "E">>}
StatusHeaders == {HStatus}
NewHeaders    == {HNew, <<"S", "T", "A", "T", "U", "S", " ", "[", "N", "E", "W", "]">>}
OtherHeaders  == {<<"S", "u", "m", "m", "a", "r", "y">>}

\* A layout: the headers of a table, each with the kind of cell under it.
Canonical == <<[hdr |-> HKey, kind |-> "key"], [hdr |-> HDate, kind |-> "date"],
               [hdr |-> HStatus, kind |-> "status"], [hdr |-> HNew, kind |-> "new"]>>

Absent == <<>>
Column(h, kind) == IF h = Absent THEN <<>> ELSE <<[hdr |-> h, kind |-> kind]>>
Reverse(xs) == [i \in 1..Len(xs) |-> xs[Len(xs) + 1 - i]]

\* Every choice of one header, or none, for each column, in either order: no
\* two headers of a layout are equal up to case.
Layouts ==
    LET fwd == {Column(k, "key") \o Column(d, "date") \o Column(st, "status")
                    \o Column(n, "new") \o Column(o, "other") :
                  k \in KeyHeaders \cup {Absent}, d \in DateHeaders \cup {Absent},
                  st \in StatusHeaders \cup {Absent}, n \in NewHeaders \cup {Absent},
                  o \in OtherHeaders \cup {Absent}}
    IN  fwd \cup {Reverse(l) : l \in fwd}

\* Cell values.  "K2" sorts before "k1".
KeyA    == <<"k", "1">>
KeyB    == <<"K", "2">>
Wip     == Str(<<" ", "w", "i", "p">>)
WasWip  == Str(<<"w", "i", "p", " ">>)
Done    == Str(<<"D", "o", "n", "e">>)
NoDate  == Str(<<"n", "o", "t", " ", "a", " ", "d", "a", "t", "e">>)
KeyCells    == {Str(KeyA), Str(KeyB), Null}
DateCells   == {Dt(0, 0), Dt(0, 1), Dt(1, 0), NoDate}
StatusCells == {WasWip, Null}
NewCells    == {Wip, Done, Null}

Record(k, d, st, n) ==
    [key |-> k, date |-> d, status |-> st, new |-> n, other |-> Str(<<"x">>)]

Records == {Record(k, d, st, n) :
              k \in KeyCells, d \in DateCells, st \in {Null}, n \in NewCells}

FewRecords == {Record(k, d, st, n) :
                 k \in {Str(KeyA), Str(KeyB)}, d \in {Dt(0, 1), Dt(1, 0)},
                 st \in StatusCells, n \in {Wip, Done}}

SampleRecords == <<Record(Str(KeyB), Dt(0, 1), Str(<<"t", "o", "d", "o">>), Wip),
                   Record(Str(KeyB), Dt(1, 0), WasWip, Done)>>

\* The sidebar's alias texts, in-progress then done.
WipText    == <<"W", "I", "P">>
DoneText   == <<"D", "O", "N", "E">>
UsualTexts == <<WipText, DoneText>>
AliasTexts == {<<<<"w", "i", "p", ",", " ", "d", "o", "n", "e">>, DoneText>>,
               <<WipText, <<" ", ",">>>>,
               <<Absent, <<"c", "l", "o", "s", "e", "d", ",", ",", "d", "o", "n", "e", " ">>>>}
TimeZones  == {-1, 0, 1}

\* The clock at tick 9 (day 4, afternoon): each timezone under the usual
\* aliases, and each other pair of alias texts under UTC.
SettingChoices ==
    {<<9, tz, UsualTexts>> : tz \in TimeZones}
        \cup {<<9, 0, texts>> : texts \in AliasTexts}

UpTo(S, n) == UNION {[1..m -> S] : m \in 0..n}

\* The table a layout and records make: one column per header of the layout.
Upload(layout, recs) ==
    /\ columns = [i \in 1..Len(layout) |-> layout[i].hdr]
    /\ rows = [r \in 1..Len(recs) |->
                  [i \in 1..Len(layout) |-> recs[r][layout[i].kind]]]

Settings(clock, tz, texts) ==
    /\ now = clock
    /\ tz_name = tz
    /\ in_progress_aliases = texts[1]
    /\ done_aliases = texts[2]

Waiting ==
    /\ pc = "uploaded"
    /\ results = <<>>
    /\ statuses = <<>>
    /\ error = <<>>

\* Any headers, over a sample table and the usual settings.
InitHeaders ==
    /\ \E layout \in Layouts : Upload(layout, SampleRecords)
    /\ Settings(9, 0, UsualTexts)
    /\ Waiting

\* Any rows, under the exact headers and the usual settings.
InitRows ==
    /\ \E recs \in UpTo(Records, MaxRows) : Upload(Canonical, recs)
    /\ Settings(9, 0, UsualTexts)
    /\ Waiting

\* Any settings, over rows whose statuses and dates vary.
InitSettings ==
    /\ \E recs \in UpTo(FewRecords, MaxRows) : Upload(Canonical, recs)
    /\ \E c \in SettingChoices : Settings(c[1], c[2], c[3])
    /\ Waiting

Init == InitHeaders \/ InitRows \/ InitSettings

(***************************************************************************)
(* The script run                                                          *)
(***************************************************************************)

\* set([s.strip().upper() for s in text.split(",") if s.strip()])
AliasSet(text) ==
    {Upper(Strip(tok)) : tok \in {t \in Range(Split(text)) : Strip(t) # <<>>}}

\* compute_metrics raises ValueError: st.error shows the missing columns.
RaiseMissingColumns ==
    /\ pc = "uploaded"
    /\ Missing(columns) # <<>>
    /\ pc' = "error"
    /\ error' = Missing(columns)
    /\ UNCHANGED <<columns, rows, now, tz_name, in_progress_aliases, done_aliases,
                   results, statuses>>

\* compute_metrics returns: the results and the statuses are shown.
ComputeMetrics ==
    /\ pc = "uploaded"
    /\ Missing(columns) = <<>>
    /\ LET out == compute_metrics(columns, rows, TodayLocal(now, tz_name),
                                  AliasSet(in_progress_aliases),
                                  AliasSet(done_aliases))
       IN  /\ results' = out.results
           /\ statuses' = out.statuses
    /\ pc' = "done"
    /\ UNCHANGED <<columns, rows, now, tz_name, in_progress_aliases, done_aliases,
                   error>>

Next == RaiseMissingColumns \/ ComputeMetrics

Spec == Init /\ [][Next]_vars

(***************************************************************************)
(* The terms the properties are stated in, read off the uploaded table     *)
(***************************************************************************)

\* The column whose header matches a required name without regard to case.
ColumnOf(n) == CHOOSE i \in 1..Len(columns) : Lower(columns[i]) = n

\* The uploaded rows, their cells named by the required columns.
Table ==
    LET k == ColumnOf(NameKey)
        d == ColumnOf(NameDate)
        s == ColumnOf(NameStatus)
        n == ColumnOf(NameNew)
    IN  [i \in 1..Len(rows) |->
            [key |-> rows[i][k], date |-> rows[i][d],
             status |-> rows[i][s], new |-> rows[i][n]]] \o <<>>

\* A row is discarded when its key is null or its date is no date.
Discarded(e) == e.key.tag = "null" \/ e.date.tag # "dt"
Kept(t) == {i \in 1..Len(t) : ~Discarded(t[i])}
KeptKeys(t) == {t[i].key.txt : i \in Kept(t)}

\* A status cell's text, trimmed and upper-cased.
Normal(c) == Upper(Strip(c.txt))

\* The kept rows of key k whose trimmed, upper-cased Status [new] is an alias.
Events(t, k, aliases) ==
    {i \in Kept(t) : /\ t[i].key.txt = k
                     /\ t[i].new.tag = "str"
                     /\ Normal(t[i].new) \in aliases}

\* The earliest calendar day among the rows E.
FirstDay(t, E) == SetMin({t[i].date.day : i \in E})

\* The strings of both Status columns of the kept rows, trimmed and upper-cased.
KeptStatuses(t) ==
    {Normal(c) : c \in {x \in {t[i].status : i \in Kept(t)}
                                \cup {t[i].new : i \in Kept(t)} : x.tag = "str"}}

Today == (now + tz_name) \div 2
Shown == {results[i] : i \in 1..Len(results)}

(***************************************************************************)
(* Properties                                                              *)
(***************************************************************************)

\* C1, as stated: every result row has a Metric Type or lacks both dates, and
\* no row is a Cycle Time row without an In Progress Date.
C1_ClassificationExclusive ==
    pc = "done" =>
        \A r \in Shown :
            /\ \/ r.MetricType \in {Some(CycleTime), Some(WorkItemAge)}
               \/ ~r.InProgressDate.has /\ ~r.DoneDate.has
            /\ ~(r.MetricType = Some(CycleTime) /\ ~r.InProgressDate.has)

\* C1, amended: every result row has a Metric Type or lacks both dates; it is
\* a Cycle Time row exactly when it has a Done Date, with or without an In
\* Progress Date, and a Work Item Age row exactly when it has an In Progress
\* Date and no Done Date.
C1_Classification ==
    pc = "done" =>
        \A r \in Shown :
            /\ \/ r.MetricType \in {Some(CycleTime), Some(WorkItemAge)}
               \/ ~r.InProgressDate.has /\ ~r.DoneDate.has
            /\ r.MetricType = Some(CycleTime) <=> r.DoneDate.has
            /\ r.MetricType = Some(WorkItemAge) <=>
                   r.InProgressDate.has /\ ~r.DoneDate.has

\* C1's case: a Cycle Time row without an In Progress Date, beside a Work
\* Item Age row.
C1_Witness ==
    /\ pc = "done"
    /\ \E r \in Shown : r.MetricType = Some(CycleTime) /\ ~r.InProgressDate.has
    /\ \E r \in Shown : r.MetricType = Some(WorkItemAge)

\* C2: a row with both dates has Days = (done day - in-progress day) + 1,
\* unclamped, and is a Cycle Time row.
C2_CycleTimeDays ==
    pc = "done" =>
        \A r \in Shown :
            r.InProgressDate.has /\ r.DoneDate.has =>
                /\ r.Days = Some((r.DoneDate.t \div 2) - (r.InProgressDate.t \div 2) + 1)
                /\ r.MetricType = Some(CycleTime)

\* C2's case: a done date before the in-progress date, giving Days <= 0.
C2_Witness ==
    /\ pc = "done"
    /\ \E r \in Shown :
           /\ r.InProgressDate.has /\ r.DoneDate.has
           /\ r.DoneDate.t \div 2 < r.InProgressDate.t \div 2
           /\ r.Days.has /\ r.Days.v <= 0

\* C3: a key started and never finished has one row, a Work Item Age row with
\* Days = (today in the chosen timezone - first in-progress day) + 1.
C3_WorkItemAgeDays ==
    pc = "done" =>
        LET t == Table
            A == AliasSet(in_progress_aliases)
            D == AliasSet(done_aliases)
        IN  \A k \in KeptKeys(t) :
                Events(t, k, A) # {} /\ Events(t, k, D) = {} =>
                    /\ Cardinality({r \in Shown : r.Key = k}) = 1
                    /\ \A r \in Shown :
                           r.Key = k =>
                               /\ r.MetricType = Some(WorkItemAge)
                               /\ r.Days = Some(Today - FirstDay(t, Events(t, k, A)) + 1)

\* C3's case: started four days before today, today being a day later in the
\* chosen timezone than in UTC.
C3_Witness ==
    /\ pc = "done"
    /\ Today # now \div 2
    /\ LET t == Table
       IN  \E k \in KeptKeys(t) :
               /\ Events(t, k, AliasSet(in_progress_aliases)) # {}
               /\ Events(t, k, AliasSet(done_aliases)) = {}
               /\ FirstDay(t, Events(t, k, AliasSet(in_progress_aliases))) = Today - 4
               /\ \E r \in Shown : r.Key = k /\ r.Days = Some(5)

\* The uploaded table under the exact headers, in their usual order.
ExactColumns == [i \in 1..Len(Canonical) |-> Canonical[i].hdr]
ExactRows ==
    LET t == Table
    IN  [i \in 1..Len(t) |-> <<t[i].key, t[i].date, t[i].status, t[i].new>>]

\* C4: the run fails with the missing-columns error exactly when a required
\* name matches no header without regard to case; the error names exactly
\* those names, and nothing else is produced.  When every name is matched,
\* whatever the case and the order of the headers, the outcome is that of the
\* same table under the exact headers.
C4_MissingColumns ==
    pc # "uploaded" =>
        LET unmatched == {n \in Range(required) :
                             \A i \in 1..Len(columns) : Lower(columns[i]) # n}
        IN  /\ pc = "error" <=> unmatched # {}
            /\ pc = "error" =>
                   /\ Range(error) = unmatched
                   /\ Len(error) = Cardinality(unmatched)
                   /\ results = <<>>
                   /\ statuses = <<>>
            /\ pc = "done" =>
                   /\ error = <<>>
                   /\ [results |-> results, statuses |-> statuses]
                          = compute_metrics(ExactColumns, ExactRows, Today,
                                            AliasSet(in_progress_aliases),
                                            AliasSet(done_aliases))

\* C4's case: KEY matches key, Status [new] is not there and is what the error names.
C4_Witness ==
    /\ pc = "error"
    /\ error = <<NameNew>>
    /\ \E i \in 1..Len(columns) : columns[i] = <<"K", "E", "Y">>

\* The uploaded rows without the discarded ones.
CleanRows ==
    LET k == ColumnOf(NameKey)
        d == ColumnOf(NameDate)
    IN  SelectSeq(rows, LAMBDA row : ~(row[k].tag = "null" \/ row[d].tag # "dt"))

\* C5: the results and the statuses are those of the table without its
\* discarded rows (null key, or a date that is no date).
C5_DiscardedRowsIgnored ==
    pc = "done" =>
        [results |-> results, statuses |-> statuses]
            = compute_metrics(columns, CleanRows, Today,
                              AliasSet(in_progress_aliases), AliasSet(done_aliases))

\* C5's case: a row with a date that is no date and a status no kept row has,
\* beside a kept row that gives a result.
C5_Witness ==
    /\ pc = "done"
    /\ results # <<>>
    /\ LET t == Table
       IN  \E i \in 1..Len(t) :
               /\ t[i].key.tag = "str"
               /\ t[i].date.tag = "str"
               /\ t[i].new.tag = "str"
               /\ Normal(t[i].new) \notin Range(statuses)

\* C6: one row for each key with a kept event in either alias set, no key
\* twice, no other key, and every row has at least one of the two dates.
C6_OneRowPerKey ==
    pc = "done" =>
        LET t == Table
            A == AliasSet(in_progress_aliases)
            D == AliasSet(done_aliases)
        IN  /\ {r.Key : r \in Shown}
                  = {k \in KeptKeys(t) : Events(t, k, A) \cup Events(t, k, D) # {}}
            /\ \A i, j \in 1..Len(results) : results[i].Key = results[j].Key => i = j
            /\ \A r \in Shown : r.InProgressDate.has \/ r.DoneDate.has

\* C6's case: a key with only a done event has a row, a key with kept rows but
\* no event has none.
C6_Witness ==
    /\ pc = "done"
    /\ \E r \in Shown : ~r.InProgressDate.has /\ r.DoneDate.has
    /\ \E k \in KeptKeys(Table) : \A r \in Shown : r.Key # k

\* C7: each date of a row is the earliest day among the key's kept events of
\* that alias set, and is absent exactly when the key has no such event.
C7_FirstDates ==
    pc = "done" =>
        LET t == Table
            A == AliasSet(in_progress_aliases)
            D == AliasSet(done_aliases)
        IN  \A r \in Shown :
                /\ r.InProgressDate.has <=> Events(t, r.Key, A) # {}
                /\ r.InProgressDate.has =>
                       r.InProgressDate.t \div 2 = FirstDay(t, Events(t, r.Key, A))
                /\ r.DoneDate.has <=> Events(t, r.Key, D) # {}
                /\ r.DoneDate.has =>
                       r.DoneDate.t \div 2 = FirstDay(t, Events(t, r.Key, D))

\* C7's case: two in-progress events of a key on different days, the later
\* one first in the table and with a Status that is itself an alias.
C7_Witness ==
    /\ pc = "done"
    /\ LET t == Table
           A == AliasSet(in_progress_aliases)
       IN  \E r \in Shown :
               \E i, j \in Events(t, r.Key, A) :
                   /\ i < j
                   /\ t[j].date.day < t[i].date.day
                   /\ r.InProgressDate.t \div 2 = t[j].date.day
                   /\ t[i].status.tag = "str"
                   /\ Normal(t[i].status) \in A

\* C8: the status list is the trimmed, upper-cased strings of both Status
\* columns of the kept rows, each once, in ascending order.
C8_StatusCatalog ==
    pc = "done" =>
        /\ Range(statuses) = KeptStatuses(Table)
        /\ \A i, j \in 1..Len(statuses) : i < j => StrLess(statuses[i], statuses[j])

\* C8's case: two statuses listed, one of them found under two spellings, and
\* a null status among the kept rows.
C8_Witness ==
    /\ pc = "done"
    /\ Len(statuses) >= 2
    /\ LET t == Table
       IN  /\ \E i, j \in Kept(t) :
                  /\ t[i].status.tag = "str"
                  /\ t[j].new.tag = "str"
                  /\ t[i].status.txt # t[j].new.txt
                  /\ Normal(t[i].status) = Normal(t[j].new)
           /\ \E i \in Kept(t) : t[i].status.tag = "null"

\* C9: Days is present exactly on the rows that have an In Progress Date.
C9_DaysIffInProgress ==
    pc = "done" => \A r \in Shown : r.Days.has <=> r.InProgressDate.has

\* C9's case: a row with a Done Date and no In Progress Date, beside a row
\* with an In Progress Date.
C9_Witness ==
    /\ pc = "done"
    /\ \E r \in Shown : ~r.InProgressDate.has /\ r.DoneDate.has /\ ~r.Days.has
    /\ \E r \in Shown : r.InProgressDate.has /\ r.Days.has

\* The result rows before sort_values.
Unsorted ==
    LET df == DropNa(Renamed(columns, rows))
    IN  WithMetrics(Merge(FirstDates(df, AliasSet(in_progress_aliases)),
                          FirstDates(df, AliasSet(done_aliases))), Today)

\* C10: Cycle Time rows come before Work Item Age rows, keys ascend within a
\* Metric Type, and the rows are those computed before the sort.
C10_SortedByTypeAndKey ==
    pc = "done" =>
        LET before == Unsorted
        IN  /\ \A i, j \in 1..Len(results) :
                   i < j =>
                       LET a == results[i]
                           b == results[j]
                       IN  \/ /\ a.MetricType = Some(CycleTime)
                              /\ b.MetricType = Some(WorkItemAge)
                           \/ a.MetricType = b.MetricType /\ StrLess(a.Key, b.Key)
            /\ Shown = Range(before)
            /\ Len(results) = Len(before)

\* C10's case: the sort moves a Cycle Time row ahead of a Work Item Age row
\* of a lesser key.
C10_Witness ==
    /\ pc = "done"
    /\ Len(results) = 2
    /\ results # Unsorted
    /\ StrLess(results[2].Key, results[1].Key)

====
